---- MODULE Spec2Model ----
(***************************************************************************)
(* web-session-tracer: the operation router (PageTracer), the network      *)
(* correlator (NetworkTracker), the mutation classifier                    *)
(* (computeChangeLevel) and the shared sequence allocator (SessionStorage).*)
(*                                                                         *)
(* Scheduling: Node.js, one thread.  A step of the model is one macrotask  *)
(* together with the microtasks it schedules: the synchronous prefix of a  *)
(* handler up to its first await of an I/O promise, or the continuation    *)
(* that runs when such a promise settles up to the next one.               *)
(***************************************************************************)
EXTENDS Integers, Sequences, FiniteSets, TLC

\* ---------------------------------------------------------------- bounds
MaxInputs == 3       \* triggers, mutation messages and stops of a behaviour of Spec
MaxTriggers == 2     \* triggers and stops of a behaviour of SpecTabs
MaxInputsNet == 3    \* frames of a behaviour of SpecNet
MaxInputsAttr == 3   \* frames and triggers of a behaviour of SpecAttr
MaxBufferSize == 2   \* largest configured networkBufferSize
MaxInputsAttach == 3 \* attach signals and navigation notices of a behaviour of SpecAttach
MaxInputsLive == 2   \* triggers, messages, frames and stops of a behaviour of SpecLive
MaxInputsIso == 3    \* triggers, messages, frames and stops of a behaviour of SpecIso
MaxNodes == 2        \* most nodes one raw change of SpecClassify adds and removes
MaxInputsSink == 3   \* triggers, mutation messages and frames of a behaviour of SpecSink
MaxInputsLifecycle == 4 \* attach signals, process signals and frames of a behaviour of SpecLifecycle

\* ---------------------------------------------------------------- inputs
Tabs == {"A", "B"}
Undefined == "undefined"
UserActions == {"click", "keydown"}
ReqIds == {"r1", "r2", "r3"}

\* ---------------------------------------------------------------- values
\* null of `string | null` (an operation directory record with no event part)
NoDir == [ev |-> << >>, frameType |-> "", type |-> ""]

\* the page targets of the browser; a tracer (an element of Tabs) serves one
Targets == {"p", "q"}
NoTarget == "none"
NoTracer == "none"

VARIABLES
  eventCount,          \* SessionStorage.eventCount
  opCount,             \* SessionStorage.opCount
  issued,              \* history: the values nextEventId returned, in call order
  screenshotEnabled,   \* config.screenshotEnabled
  fullSnapshotEnabled, \* config.fullSnapshotEnabled
  bufferSize,          \* config.networkBufferSize
  stopped,             \* PageTracer.stopped, per tab
  cdpSession,          \* PageTracer.cdpSession # null, per tab
  currentOpDir,        \* PageTracer.currentOpDir, per tab
  currentMutationDir,  \* PageTracer.currentMutationDir, per tab
  handlers,            \* suspended saveUserAction / recordNavigation calls
  opDirs,              \* directories fs.mkdir created
  calls,               \* history: capture and write calls the handlers made, per opDir
  mutationsJsonl,      \* opDir -> lines of mutations.jsonl
  networkJsonl,        \* opDir -> lines of network.jsonl
  inflight,            \* fs.appendFile calls issued and not yet settled
  pendingRequests,     \* NetworkTracker.pendingRequests, per tab (a JS Map)
  insertedAt,          \* history: input number at which a pending key was inserted
  nInputs,             \* history: triggers, mutation messages, frames and stops so far
  pageTracers,         \* SessionManager.pageTracers (a JS Map: target -> tracer)
  tracerPage,          \* PageTracer.page, per tracer (NoTarget: not constructed)
  listening,           \* the tracer's framenavigated and CDP listeners are registered
  running,             \* SessionManager.running
  shuttingDown,        \* main: shuttingDown
  shutdownPc,          \* main: where shutdown() is (idle, stop, disconnect, exit)
  shutdowns            \* history: how many times shutdown() has been entered

routerVars == <<stopped, cdpSession, currentOpDir, currentMutationDir, handlers>>
sinkVars == <<opDirs, calls, mutationsJsonl, networkJsonl, inflight>>
netVars == <<pendingRequests, insertedAt>>
configVars == <<screenshotEnabled, fullSnapshotEnabled, bufferSize>>
allocVars == <<eventCount, opCount, issued>>
managerVars == <<pageTracers, tracerPage, listening>>
mainVars == <<running, shuttingDown, shutdownPc, shutdowns>>
vars == <<allocVars, configVars, managerVars, mainVars, routerVars, sinkVars, netVars, nInputs>>

\* ------------------------------------------------- SessionStorage (storage.ts)
RECURSIVE Digits(_)
\* String(n) for n >= 0, as the sequence of its decimal digits
Digits(n) == IF n < 10 THEN <<n>> ELSE Digits(n \div 10) \o <<n % 10>>

\* s.padStart(len, fill)
PadStart(s, len, fill) ==
  IF Len(s) >= len THEN s ELSE [i \in 1..(len - Len(s)) |-> fill] \o s

RECURSIVE EvNumber(_)
\* the number an evNNNNNN token denotes
EvNumber(ds) ==
  IF ds = << >> THEN 0 ELSE 10 * EvNumber(SubSeq(ds, 1, Len(ds) - 1)) + ds[Len(ds)]

\* a plausible slip: the counter is read but not advanced
NextEventCountStuck(count) == count

\* this.eventCount++
NextEventCount(count) == count + 1

\* `${sessionId}-ev${String(eventCount).padStart(6, '0')}`; the session prefix is
\* the same for every call and is left out
EventIdOf(count) == PadStart(Digits(count), 6, 0)

\* path.join(sessionDir, 'ops', `${evPart}-${frameType}-${type}`)
OpDirOf(eventId, frameType, type) ==
  [ev |-> eventId, frameType |-> frameType, type |-> type]

\* the sequence number of the operation a directory belongs to (0 for null)
SeqOf(opDir) == EvNumber(opDir.ev)

\* ------------------------------------------- classifier (mutation-level.ts)
VISIBLE_ATTRS ==
  {"class", "style", "hidden", "disabled", "value", "checked", "selected",
   "open", "src", "href", "alt", "title", "aria-expanded", "aria-selected",
   "aria-checked", "aria-hidden", "aria-label", "aria-disabled", "aria-current"}

RESOURCE_NODES == {"SCRIPT", "LINK", "META", "STYLE", "NOSCRIPT"}

\* attribute names that start with 'aria-' among the names the model draws from
AriaNames ==
  {"aria-expanded", "aria-selected", "aria-checked", "aria-hidden", "aria-label",
   "aria-disabled", "aria-current", "aria-busy"}

\* a plausible slip: the names of the fixed set only, no prefix test
StartsWithAriaNever(name) == FALSE

\* attributeName.startsWith('aria-')
StartsWithAria(name) == name \in AriaNames

\* A target path is the XPath getXPath builds, '/' + name[index] joined by '/',
\* held as the sequence of its element names; '' is the empty sequence.
\* targetPath.includes('/head[') || targetPath === ''
isInHead(targetPath) ==
  (\E i \in 1..Len(targetPath) : targetPath[i] = "head") \/ targetPath = << >>

\* a plausible slip: comment nodes are not counted as noise
isNoiseNodesResourceOnly(nodes) ==
  /\ Len(nodes) > 0
  /\ \A i \in 1..Len(nodes) : nodes[i] \in RESOURCE_NODES

isNoiseNodes(nodes) ==
  /\ Len(nodes) > 0
  /\ \A i \in 1..Len(nodes) : nodes[i] \in RESOURCE_NODES \/ nodes[i] = "#comment"

isTextOnlyNodes(nodes) ==
  /\ Len(nodes) > 0
  /\ \A i \in 1..Len(nodes) : nodes[i] = "#text"

\* a plausible slip: a switch over the three mutation types without a default
\* (a change of any other type gets no level)
minorLevelOfKnownTypes(raw) ==
  IF raw.mutationType \in {"childList", "attributes", "characterData"} THEN 2 ELSE 0

\* the last statement, `return 2`, whatever the change is
minorLevel(raw) == 2

computeChangeLevel(raw) ==
  LET allNodes == raw.addedNodes \o raw.removedNodes IN
  IF isInHead(raw.targetPath) THEN 1
  ELSE IF raw.mutationType = "childList" /\ Len(allNodes) > 0 /\ isNoiseNodes(allNodes)
    THEN 1
  ELSE IF /\ raw.mutationType = "attributes"
          /\ raw.attributeName # Undefined
          /\ (raw.attributeName \in VISIBLE_ATTRS \/ StartsWithAria(raw.attributeName))
    THEN 3
  ELSE IF raw.mutationType = "childList" /\ isTextOnlyNodes(allNodes) THEN 2
  ELSE IF /\ raw.mutationType = "childList"
          /\ \E i \in 1..Len(allNodes) :
               /\ allNodes[i] \notin RESOURCE_NODES
               /\ allNodes[i] # "#comment"
               /\ allNodes[i] # "#text"
    THEN 3
  ELSE minorLevel(raw)

\* Math.max(a, b)
Max(a, b) == IF a >= b THEN a ELSE b

\* a plausible slip: maxLevel = c.level in the loop, so the last change decides
MaxLevelOfLast(acc, changes) ==
  IF changes = << >> THEN acc ELSE changes[Len(changes)].level

RECURSIVE MaxLevelFrom(_, _)
\* let maxLevel = 1; for (const c of changes) maxLevel = Math.max(maxLevel, c.level)
MaxLevelFrom(acc, changes) ==
  IF changes = << >> THEN acc
  ELSE MaxLevelFrom(Max(acc, Head(changes).level), Tail(changes))

\* raw => ({mutationType, targetPath, level, ...}): the node lists and the
\* attribute name are copied when they are there (an empty list and Undefined
\* stand for the field left out); the values are not modelled
DomChangeOf(raw) ==
  [mutationType |-> raw.mutationType, targetPath |-> raw.targetPath,
   level |-> computeChangeLevel(raw),
   addedNodes |-> raw.addedNodes, removedNodes |-> raw.removedNodes,
   attributeName |-> raw.attributeName]

\* a plausible slip: the noise changes are left out of the record
mapChangesFiltered(rawChanges) ==
  SelectSeq([i \in 1..Len(rawChanges) |-> DomChangeOf(rawChanges[i])],
            LAMBDA c : c.level > 1)

\* rawChanges.map(...)
mapChanges(rawChanges) ==
  [i \in 1..Len(rawChanges) |-> DomChangeOf(rawChanges[i])]

\* the raw change lists an in-page mutation message carries in Spec
RawAttr ==
  [mutationType |-> "attributes", targetPath |-> <<"html", "body", "div">>,
   addedNodes |-> << >>, removedNodes |-> << >>, attributeName |-> "class"]
RawHeadChild ==
  [mutationType |-> "childList", targetPath |-> <<"html", "head">>,
   addedNodes |-> <<"SCRIPT">>, removedNodes |-> << >>, attributeName |-> Undefined]
ChangeLists == { << >>, <<RawHeadChild, RawAttr>> }

\* the raw changes of SpecClassify: every mutation type (one the observer does
\* not know among them), the empty path of a target that is no element, a path
\* in the body and one in the head, every attribute name or none
MutationTypes == {"childList", "attributes", "characterData", "other"}
TargetPaths == {<< >>, <<"html", "body", "div">>, <<"html", "head", "title">>}
AttributeNames == {Undefined, "class", "style", "aria-label", "aria-busy", "data-x"}
NodeNames == RESOURCE_NODES \cup {"#comment", "#text", "DIV"}
\* every split of up to n node names into added and removed nodes
NodeSplits(n) ==
  UNION {UNION {{<<SubSeq(ns, 1, k), SubSeq(ns, k + 1, m)>> : k \in 0..m} :
                  ns \in [1..m -> NodeNames]} : m \in 0..n}

\* the raw changes that add and remove up to n nodes
RawChanges(n) ==
  {[mutationType |-> ty, targetPath |-> path, addedNodes |-> sp[1],
    removedNodes |-> sp[2], attributeName |-> name] :
     ty \in MutationTypes, path \in TargetPaths, sp \in NodeSplits(n),
     name \in AttributeNames}

\* a text node added in the body
RawText ==
  [mutationType |-> "childList", targetPath |-> <<"html", "body", "div">>,
   addedNodes |-> <<"#text">>, removedNodes |-> << >>, attributeName |-> Undefined]

\* the batches of two and three changes of the three levels, in every order
Batches ==
  LET reps == {RawHeadChild, RawText, RawAttr}
  IN [1..2 -> reps] \cup [1..3 -> reps]

\* the change lists of SpecClassify: every raw change of up to n nodes, twice in
\* one batch, and the mixed batches
ClassifyLists(n) == {<<raw, raw>> : raw \in RawChanges(n)} \cup Batches

\* ------------------------------------------------ PageTracer (page-tracer.ts)
\* the in-page messages window.__wstEvent delivers (JSON text, parsed or not);
\* hasChanges: the parsed object has a `changes` list (an empty one is truthy)
InjectedMessages ==
  {[parses |-> FALSE, type |-> "", action |-> Undefined, hasChanges |-> FALSE,
    changes |-> << >>]}
  \cup {[parses |-> TRUE, type |-> "user_action", action |-> a, hasChanges |-> FALSE,
         changes |-> << >>] : a \in UserActions \cup {Undefined}}
  \cup {[parses |-> TRUE, type |-> "mutation", action |-> Undefined,
         hasChanges |-> TRUE, changes |-> c] : c \in ChangeLists}
  \cup {[parses |-> TRUE, type |-> ty, action |-> Undefined, hasChanges |-> FALSE,
         changes |-> << >>] : ty \in {"mutation", "other"}}

\* a suspended call of saveUserAction or recordNavigation, or of stop
Handler(ev, tab, kind, action, frameType, pc) ==
  [ev |-> ev, tab |-> tab, kind |-> kind, action |-> action,
   frameType |-> frameType, pc |-> pc]

HandlerDir(h) == OpDirOf(h.ev, h.frameType, h.action)

\* a plausible slip: every user action waits for the page to settle
isClickLikeAlways(action) == TRUE

\* data.action === 'click' || data.action === 'submit'
isClickLike(action) == action \in {"click", "submit"}

\* where saveUserAction suspends next once the post-action screenshot is settled
PcAfterScreenshot(t) ==
  IF fullSnapshotEnabled /\ cdpSession[t] THEN "snapshot" ELSE "writeOpEvent"

\* where saveUserAction suspends next once the settle delay is over (or skipped)
PcAfterSleep(t) == IF screenshotEnabled THEN "after" ELSE PcAfterScreenshot(t)

\* a plausible slip: the pair of targets is kept once, in the object the tabs share
SetTargetsShared(t, opDir) ==
  /\ currentMutationDir' = [u \in Tabs |-> opDir]
  /\ currentOpDir' = [u \in Tabs |-> opDir]

\* a plausible slip: only the mutation target moves here, currentOpDir is left
\* for the end of the handler
SetTargetsMutationOnly(t, opDir) ==
  /\ currentMutationDir' = [currentMutationDir EXCEPT ![t] = opDir]
  /\ UNCHANGED currentOpDir

\* this.currentMutationDir = opDir; this.currentOpDir = opDir
SetTargets(t, opDir) ==
  /\ currentMutationDir' = [currentMutationDir EXCEPT ![t] = opDir]
  /\ currentOpDir' = [currentOpDir EXCEPT ![t] = opDir]

\* a plausible slip: the number is taken from the count of created directories
AllocateEventIdFromOpCount ==
  /\ eventCount' = NextEventCount(eventCount)
  /\ issued' = Append(issued, EventIdOf(opCount + 1))

\* nextEventId(): advances the shared counter and returns the formatted id
AllocateEventId ==
  /\ eventCount' = NextEventCount(eventCount)
  /\ issued' = Append(issued, EventIdOf(eventCount'))

\* a plausible slip: the operation becomes the target as soon as its identifier
\* is allocated, before its directory is there
saveUserActionTargetsFirst(t, data) ==
  /\ AllocateEventId
  /\ handlers' = handlers \cup
       {Handler(EventIdOf(eventCount'), t, "user", data.action, "main", "createOpDir")}
  /\ SetTargets(t, OpDirOf(EventIdOf(eventCount'), "main", data.action))
  /\ nInputs' = nInputs + 1
  /\ UNCHANGED <<opCount, configVars, managerVars, mainVars, stopped, cdpSession, sinkVars, netVars>>

\* saveUserAction up to `await this.storage.createOpDir(...)`
saveUserAction(t, data) ==
  /\ AllocateEventId
  /\ handlers' = handlers \cup
       {Handler(EventIdOf(eventCount'), t, "user", data.action, "main", "createOpDir")}
  /\ nInputs' = nInputs + 1
  /\ UNCHANGED <<opCount, configVars, managerVars, mainVars, stopped, cdpSession, currentOpDir,
                 currentMutationDir, sinkVars, netVars>>

\* a plausible slip: the write resolves its directory when it is performed
AppendFileTargetLate(w) == currentMutationDir[w.tab]

\* fs.appendFile(path.join(opDir, ...)): the directory the call was given
AppendFileTarget(w) == w.opDir

\* a plausible slip: only the missing target is looked at
isDiscardedWithoutTarget(targetDir, rawChanges) == targetDir = NoDir

\* !targetDir || rawChanges.length === 0
isDiscarded(targetDir, rawChanges) == targetDir = NoDir \/ Len(rawChanges) = 0

\* saveMutation: the target is read first, the record is built and appended
saveMutation(t, rawChanges) ==
  LET targetDir == currentMutationDir[t]
      changes == mapChanges(rawChanges)
      record == [bid |-> nInputs + 1, at |-> targetDir,
                 maxLevel |-> MaxLevelFrom(1, changes), changes |-> changes]
  IN /\ nInputs' = nInputs + 1
     /\ IF isDiscarded(targetDir, rawChanges)
          THEN UNCHANGED inflight
          ELSE inflight' = inflight \cup
                 {[file |-> "mutations.jsonl", opDir |-> targetDir, tab |-> t,
                   rec |-> record]}
     /\ UNCHANGED <<allocVars, configVars, managerVars, mainVars, routerVars, opDirs, calls,
                    mutationsJsonl, networkJsonl, netVars>>

\* a plausible slip: the handlers do not look at the flag
StoppedCheckSkipped(t) == FALSE

\* if (this.stopped) return
StoppedCheck(t) == stopped[t]

\* a plausible slip: the action kind of a user action is not looked at
hasActionUnchecked(msg) == TRUE

\* data.action (truthy)
hasAction(msg) == msg.action # Undefined

\* handleInjectedEvent(eventDataStr)
handleInjectedEvent(t, msg) ==
  IF StoppedCheck(t) THEN UNCHANGED vars
  ELSE IF ~msg.parses THEN UNCHANGED vars
  ELSE IF msg.type = "user_action" /\ hasAction(msg)
    THEN saveUserAction(t, msg)
  ELSE IF msg.type = "mutation" /\ msg.hasChanges
    THEN saveMutation(t, msg.changes)
  ELSE UNCHANGED vars

\* recordNavigation up to `await this.storage.createOpDir(...)`
recordNavigation(t, frameType) ==
  /\ AllocateEventId
  /\ handlers' = handlers \cup
       {Handler(EventIdOf(eventCount'), t, "nav", "navigation", frameType, "createOpDir")}
  /\ nInputs' = nInputs + 1
  /\ UNCHANGED <<opCount, configVars, managerVars, mainVars, stopped, cdpSession, currentOpDir,
                 currentMutationDir, sinkVars, netVars>>

\* handleNavigation(frame)
handleNavigation(t, url, isMainFrame) ==
  IF StoppedCheck(t) THEN UNCHANGED vars
  ELSE IF url = "" \/ url = "about:blank" THEN UNCHANGED vars
  ELSE recordNavigation(t, IF isMainFrame THEN "main" ELSE "iframe")

\* ----------------------------------------------- continuations of the handlers
Advance(h, pc) == (handlers \ {h}) \cup {[h EXCEPT !.pc = pc]}
Finish(h) == handlers \ {h}

\* the capture or write call a handler makes on entering a suspension
CallAt(pc) ==
  CASE pc = "before" -> "takeScreenshot:before"
    [] pc = "after" -> "takeScreenshot:after"
    [] pc = "snapshot" -> "captureSnapshot"
    [] pc = "writeOpEvent" -> "writeOpEvent"
    [] OTHER -> "sleep"

\* handler h goes on to the suspension pc: the call made there is recorded
Enter(h, pc) ==
  /\ handlers' = Advance(h, pc)
  /\ calls' = IF pc = "sleep" THEN calls
              ELSE calls \cup {[call |-> CallAt(pc), opDir |-> HandlerDir(h)]}

\* a plausible slip: the rejection is swallowed and the handler goes on with the
\* path of the directory
OnCreateOpDirRejectedGoesOn(h) ==
  /\ SetTargets(h.tab, HandlerDir(h))
  /\ Enter(h, "writeOpEvent")
  /\ UNCHANGED <<opCount, opDirs, mutationsJsonl, networkJsonl>>

\* the rejection of `await createOpDir` ends saveUserAction / recordNavigation; it
\* reaches the .catch of the listener that called the handler and is logged
OnCreateOpDirRejected(h) ==
  /\ handlers' = Finish(h)
  /\ UNCHANGED <<opCount, opDirs, calls, mutationsJsonl, networkJsonl,
                 currentOpDir, currentMutationDir>>

\* fs.mkdir settles: createOpDir returns (opCount++) or rejects
CreateOpDirSettles(h, ok) ==
  /\ h \in handlers /\ h.pc = "createOpDir"
  /\ IF ~ok
       THEN OnCreateOpDirRejected(h)
       ELSE /\ opCount' = opCount + 1
            /\ opDirs' = opDirs \cup {HandlerDir(h)}
            /\ mutationsJsonl' = (HandlerDir(h) :> << >>) @@ mutationsJsonl
            /\ networkJsonl' = (HandlerDir(h) :> << >>) @@ networkJsonl
            /\ IF h.kind = "nav"
                 THEN /\ Enter(h, "writeOpEvent")
                      /\ UNCHANGED <<currentOpDir, currentMutationDir>>
                 ELSE IF isClickLike(h.action) /\ screenshotEnabled
                   THEN /\ Enter(h, "before")
                        /\ UNCHANGED <<currentOpDir, currentMutationDir>>
                   ELSE /\ SetTargets(h.tab, HandlerDir(h))
                        /\ Enter(h, IF isClickLike(h.action) THEN "sleep"
                                    ELSE PcAfterSleep(h.tab))
  /\ UNCHANGED <<eventCount, issued, configVars, managerVars, mainVars, stopped, cdpSession,
                 inflight, netVars, nInputs>>

\* takeScreenshot(opDir, 'before') settles (a failure is swallowed)
ScreenshotBeforeSettles(h) ==
  /\ h \in handlers /\ h.pc = "before"
  /\ SetTargets(h.tab, HandlerDir(h))
  /\ Enter(h, "sleep")
  /\ UNCHANGED <<allocVars, configVars, managerVars, mainVars, stopped, cdpSession, opDirs,
                 mutationsJsonl, networkJsonl, inflight, netVars, nInputs>>

\* a plausible slip: stop() clears the timer of a pending delay
sleepCancelledByStop(h) == ~stopped[h.tab]

\* new Promise((resolve) => setTimeout(resolve, ms)): nothing clears the timer
sleepResolves(h) == TRUE

\* the timer of sleep(500) fires
SleepEnds(h) ==
  /\ h \in handlers /\ h.pc = "sleep"
  /\ sleepResolves(h)
  /\ Enter(h, PcAfterSleep(h.tab))
  /\ UNCHANGED <<allocVars, configVars, managerVars, mainVars, stopped, cdpSession, currentOpDir,
                 currentMutationDir, opDirs, mutationsJsonl, networkJsonl, inflight,
                 netVars, nInputs>>

\* takeScreenshot(opDir, 'after') settles (a failure is swallowed)
ScreenshotAfterSettles(h) ==
  /\ h \in handlers /\ h.pc = "after"
  /\ Enter(h, PcAfterScreenshot(h.tab))
  /\ UNCHANGED <<allocVars, configVars, managerVars, mainVars, stopped, cdpSession, currentOpDir,
                 currentMutationDir, opDirs, mutationsJsonl, networkJsonl, inflight,
                 netVars, nInputs>>

\* captureSnapshot(opDir) settles (a failure is caught and logged)
SnapshotSettles(h) ==
  /\ h \in handlers /\ h.pc = "snapshot"
  /\ IF h.kind = "nav"
       THEN /\ SetTargets(h.tab, HandlerDir(h))
            /\ handlers' = Finish(h)
            /\ UNCHANGED calls
       ELSE /\ Enter(h, "writeOpEvent")
            /\ UNCHANGED <<currentOpDir, currentMutationDir>>
  /\ UNCHANGED <<allocVars, configVars, managerVars, mainVars, stopped, cdpSession, opDirs,
                 mutationsJsonl, networkJsonl, inflight, netVars, nInputs>>

\* a plausible slip: the navigation of any frame moves the targets
isMainFrameNavigationAlways(frameType) == TRUE

\* if (frameType === 'main')
isMainFrameNavigation(frameType) == frameType = "main"

\* storage.writeOpEvent(opDir, event) settles
WriteOpEventSettles(h, ok) ==
  /\ h \in handlers /\ h.pc = "writeOpEvent"
  /\ IF h.kind = "nav" /\ ok /\ isMainFrameNavigation(h.frameType)
       THEN IF cdpSession[h.tab]
              THEN /\ Enter(h, "snapshot")
                   /\ UNCHANGED <<currentOpDir, currentMutationDir>>
              ELSE \* captureSnapshot returns at once: no transport session
                   /\ SetTargets(h.tab, HandlerDir(h))
                   /\ handlers' = Finish(h)
                   /\ UNCHANGED calls
       ELSE \* done, or rejected: the .catch of the caller logs it
            /\ handlers' = Finish(h)
            /\ UNCHANGED <<calls, currentOpDir, currentMutationDir>>
  /\ UNCHANGED <<allocVars, configVars, managerVars, mainVars, stopped, cdpSession, opDirs,
                 mutationsJsonl, networkJsonl, inflight, netVars, nInputs>>

\* fs.appendFile settles: the line is in the file, or the failure is logged
AppendSettles(w, ok) ==
  /\ w \in inflight
  /\ inflight' = inflight \ {w}
  /\ IF ok /\ w.file = "mutations.jsonl"
       THEN mutationsJsonl' =
              [mutationsJsonl EXCEPT ![AppendFileTarget(w)] = Append(@, w.rec)]
       ELSE UNCHANGED mutationsJsonl
  /\ IF ok /\ w.file = "network.jsonl"
       THEN networkJsonl' =
              [networkJsonl EXCEPT ![AppendFileTarget(w)] = Append(@, w.rec)]
       ELSE UNCHANGED networkJsonl
  /\ UNCHANGED <<allocVars, configVars, managerVars, mainVars, routerVars, opDirs, calls, netVars, nInputs>>

\* stop(): this.stopped = true, then `await this.cdpSession.detach()`
Stop(t) ==
  /\ ~stopped[t]
  /\ stopped' = [stopped EXCEPT ![t] = TRUE]
  /\ IF cdpSession[t]
       THEN handlers' = handlers \cup {Handler(<< >>, t, "stop", "", "", "detach")}
       ELSE UNCHANGED handlers
  /\ nInputs' = nInputs + 1
  /\ UNCHANGED <<allocVars, configVars, managerVars, mainVars, cdpSession, currentOpDir,
                 currentMutationDir, sinkVars, netVars>>

\* detach() settles: this.cdpSession = null
DetachSettles(h) ==
  /\ h \in handlers /\ h.pc = "detach"
  /\ cdpSession' = [cdpSession EXCEPT ![h.tab] = FALSE]
  /\ handlers' = Finish(h)
  /\ UNCHANGED <<allocVars, configVars, managerVars, mainVars, stopped, currentOpDir,
                 currentMutationDir, sinkVars, netVars, nInputs>>

\* ------------------------------------------- NetworkTracker (network-tracker.ts)
\* A JS Map is the sequence of its entries in insertion order.
MapHas(m, k) == \E i \in 1..Len(m) : m[i].requestId = k

\* what optional chaining on a missing entry reads: every field undefined
NoPending == [requestId |-> Undefined, url |-> Undefined, frameId |-> Undefined]

\* Map.prototype.get
MapGet(m, k) ==
  IF MapHas(m, k) THEN m[CHOOSE i \in 1..Len(m) : m[i].requestId = k] ELSE NoPending

\* Map.prototype.set: a present key keeps its place, a new key goes last
MapSet(m, k, v) ==
  IF MapHas(m, k)
    THEN [i \in 1..Len(m) |-> IF m[i].requestId = k THEN v ELSE m[i]]
    ELSE Append(m, v)

\* Map.prototype.delete
MapDelete(m, k) == SelectSeq(m, LAMBDA e : e.requestId # k)

\* x ?? d
Coalesce(x, d) == IF x = Undefined THEN d ELSE x

\* a plausible slip: the newest entry is dropped instead of the oldest
NewestKey(m) == m[Len(m)].requestId

\* this.pendingRequests.keys().next().value
FirstKey(m) == m[1].requestId

\* a plausible slip: the buffer is full only once it is over its size
OverBufferSize(m) == Len(m) > bufferSize

\* this.pendingRequests.size >= this.bufferSize
AtBufferSize(m) == Len(m) >= bufferSize

evictIfFull(m) ==
  IF AtBufferSize(m) /\ m # << >> THEN MapDelete(m, FirstKey(m)) ELSE m

\* a plausible slip: the tracker is handed the directory's value at construction
getCurrentOpDirAtConstruction(t) == NoDir

\* () => this.currentOpDir, the getter the tracker is constructed with
getCurrentOpDir(t) == currentOpDir[t]

\* appendToCurrentOp(event): the directory is read when the frame is observed
appendToCurrentOp(t, event) ==
  LET opDir == getCurrentOpDir(t) IN
  IF opDir = NoDir THEN UNCHANGED inflight
  ELSE inflight' = inflight \cup
         {[file |-> "network.jsonl", opDir |-> opDir, tab |-> t,
           rec |-> [event EXCEPT !.at = opDir]]}

NetworkEvent(type, requestId, url, frameUrl) ==
  [type |-> type, requestId |-> requestId, url |-> url, frameUrl |-> frameUrl,
   fid |-> nInputs + 1, at |-> NoDir]

\* the frames the transport delivers: requestWillBeSent and responseReceived carry
\* a URL and an optional frameId, loadingFinished the requestId alone; r1 comes
\* with two URLs (a redirect re-uses the requestId)
Frames ==
  {[requestId |-> "r1", url |-> "u", frameId |-> "F"],
   [requestId |-> "r1", url |-> "v", frameId |-> Undefined],
   [requestId |-> "r2", url |-> "v", frameId |-> Undefined],
   [requestId |-> "r3", url |-> "u", frameId |-> "F"]}

\* cdpSession.on('Network.requestWillBeSent', ...)
OnRequestWillBeSent(t, event) ==
  LET evicted == evictIfFull(pendingRequests[t])
      entry == [requestId |-> event.requestId, url |-> event.url,
                frameId |-> Coalesce(event.frameId, "")]
      after == MapSet(evicted, event.requestId, entry)
  IN /\ cdpSession[t]
     /\ pendingRequests' = [pendingRequests EXCEPT ![t] = after]
     /\ insertedAt' = [insertedAt EXCEPT ![t] =
          [r \in ReqIds |->
             IF r = event.requestId
               THEN IF MapHas(evicted, r) THEN @[r] ELSE nInputs + 1
               ELSE IF MapHas(after, r) THEN @[r] ELSE 0]]
     /\ appendToCurrentOp(t, NetworkEvent("network_request", event.requestId,
                                          event.url, Coalesce(event.frameId, "")))
     /\ nInputs' = nInputs + 1
     /\ UNCHANGED <<allocVars, configVars, managerVars, mainVars, routerVars, opDirs, calls,
                    mutationsJsonl, networkJsonl>>

\* a plausible slip: a response refreshes its entry (access order, not insertion)
PendingRefreshedByResponse(m, requestId) ==
  IF MapHas(m, requestId)
    THEN Append(MapDelete(m, requestId), MapGet(m, requestId))
    ELSE m

\* the responseReceived listener has no statement on this.pendingRequests
PendingAfterResponse(m, requestId) == m

\* cdpSession.on('Network.responseReceived', ...)
OnResponseReceived(t, event) ==
  /\ cdpSession[t]
  /\ pendingRequests' =
       [pendingRequests EXCEPT ![t] = PendingAfterResponse(@, event.requestId)]
  /\ appendToCurrentOp(t, NetworkEvent("network_response", event.requestId,
                                       event.url, Coalesce(event.frameId, "")))
  /\ nInputs' = nInputs + 1
  /\ UNCHANGED <<allocVars, configVars, managerVars, mainVars, routerVars, opDirs, calls,
                 mutationsJsonl, networkJsonl, insertedAt>>

\* a plausible slip: the URL is taken from the entry without a fallback
FinishedUrlNoFallback(pending) == pending.url

\* pending?.url ?? ''
FinishedUrl(pending) == Coalesce(pending.url, "")

\* cdpSession.on('Network.loadingFinished', ...)
OnLoadingFinished(t, requestId) ==
  LET pending == MapGet(pendingRequests[t], requestId) IN
  /\ cdpSession[t]
  /\ pendingRequests' = [pendingRequests EXCEPT ![t] = MapDelete(@, requestId)]
  /\ insertedAt' = [insertedAt EXCEPT ![t][requestId] = 0]
  /\ appendToCurrentOp(t, NetworkEvent("network_finished", requestId,
                                       FinishedUrl(pending),
                                       Coalesce(pending.frameId, "")))
  /\ nInputs' = nInputs + 1
  /\ UNCHANGED <<allocVars, configVars, managerVars, mainVars, routerVars, opDirs, calls,
                 mutationsJsonl, networkJsonl>>

\* main after `await sessionManager.start()`: the manager runs, no signal yet
Running ==
  /\ running = TRUE
  /\ shuttingDown = FALSE
  /\ shutdownPc = "idle"
  /\ shutdowns = 0

\* every tab has its tracer, started: A serves p, B serves q
Attached ==
  /\ tracerPage = [t \in Tabs |-> IF t = "A" THEN "p" ELSE "q"]
  /\ pageTracers = [g \in Targets |-> IF g = "p" THEN "A" ELSE "B"]
  /\ listening = [t \in Tabs |-> TRUE]

Init ==
  /\ eventCount = 0
  /\ opCount = 0
  /\ issued = << >>
  /\ screenshotEnabled \in BOOLEAN
  /\ fullSnapshotEnabled \in BOOLEAN
  /\ bufferSize \in 1..MaxBufferSize
  /\ stopped = [t \in Tabs |-> FALSE]
  /\ cdpSession = [t \in Tabs |-> TRUE]
  /\ currentOpDir = [t \in Tabs |-> NoDir]
  /\ currentMutationDir = [t \in Tabs |-> NoDir]
  /\ handlers = {}
  /\ opDirs = {}
  /\ calls = {}
  /\ mutationsJsonl = << >>
  /\ networkJsonl = << >>
  /\ inflight = {}
  /\ pendingRequests = [t \in Tabs |-> << >>]
  /\ insertedAt = [t \in Tabs |-> [r \in ReqIds |-> 0]]
  /\ nInputs = 0
  /\ Attached
  /\ Running

\* the router's configurations: both capture options off (the default) or on
InitRouter ==
  /\ Init
  /\ screenshotEnabled = fullSnapshotEnabled
  /\ bufferSize = MaxBufferSize

\* the directory of the navigation start() records for a page that is loaded
InitialNavigationDir == OpDirOf(EventIdOf(1), "main", "navigation")

\* the correlator's configurations: every buffer size, capture options off; the
\* tab is a blank page (no operation yet), or a loaded page whose initial
\* navigation start() has recorded
InitNet ==
  /\ screenshotEnabled = FALSE
  /\ fullSnapshotEnabled = FALSE
  /\ bufferSize \in 1..MaxBufferSize
  /\ stopped = [t \in Tabs |-> FALSE]
  /\ cdpSession = [t \in Tabs |-> TRUE]
  /\ handlers = {}
  /\ inflight = {}
  /\ pendingRequests = [t \in Tabs |-> << >>]
  /\ insertedAt = [t \in Tabs |-> [r \in ReqIds |-> 0]]
  /\ nInputs = 0
  /\ Attached
  /\ Running
  /\ \/ /\ eventCount = 0 /\ opCount = 0 /\ issued = << >>
        /\ currentOpDir = [t \in Tabs |-> NoDir]
        /\ currentMutationDir = [t \in Tabs |-> NoDir]
        /\ opDirs = {} /\ calls = {}
        /\ mutationsJsonl = << >> /\ networkJsonl = << >>
     \/ /\ eventCount = 1 /\ opCount = 1 /\ issued = <<EventIdOf(1)>>
        /\ currentOpDir = [t \in Tabs |-> IF t = "A" THEN InitialNavigationDir ELSE NoDir]
        /\ currentMutationDir = currentOpDir
        /\ opDirs = {InitialNavigationDir}
        /\ calls = {[call |-> c, opDir |-> InitialNavigationDir] :
                      c \in {"writeOpEvent", "captureSnapshot"}}
        /\ mutationsJsonl = (InitialNavigationDir :> << >>)
        /\ networkJsonl = (InitialNavigationDir :> << >>)

\* the in-page messages that are user actions
TriggerMessages == {msg \in InjectedMessages : msg.type = "user_action"}

\* ------------------------------------------------------------ specifications
\* an in-page message arrives on tab t
Injected(t, msg, maxInputs) ==
  /\ nInputs < maxInputs
  /\ handleInjectedEvent(t, msg)

\* a framenavigated notice arrives on tab t
Navigated(t, url, isMainFrame, maxInputs) ==
  /\ nInputs < maxInputs
  /\ handleNavigation(t, url, isMainFrame)

\* the coordinator stops the tracer of tab t
Stopped(t, maxInputs) ==
  /\ nInputs < maxInputs
  /\ Stop(t)

\* a promise a suspended saveUserAction or recordNavigation awaits settles
HandlerSettles ==
  \/ \E h \in handlers, ok \in BOOLEAN : CreateOpDirSettles(h, ok)
  \/ \E h \in handlers : ScreenshotBeforeSettles(h)
  \/ \E h \in handlers : SleepEnds(h)
  \/ \E h \in handlers : ScreenshotAfterSettles(h)
  \/ \E h \in handlers : SnapshotSettles(h)
  \/ \E h \in handlers, ok \in BOOLEAN : WriteOpEventSettles(h, ok)

\* an append to mutations.jsonl or network.jsonl settles
WriteSettles == \E w \in inflight, ok \in BOOLEAN : AppendSettles(w, ok)

\* a network frame out of `frames` is observed on tab t
Frame(t, frames, maxInputs) ==
  /\ nInputs < maxInputs
  /\ \/ \E e \in frames : OnRequestWillBeSent(t, e)
     \/ \E e \in frames : OnResponseReceived(t, e)
     \/ \E e \in frames : OnLoadingFinished(t, e.requestId)

\* the router of one tab: triggers, mutation messages and stop
Next ==
  \/ \E msg \in InjectedMessages : Injected("A", msg, MaxInputs)
  \/ \E url \in {"", "about:blank", "u"}, m \in BOOLEAN :
       Navigated("A", url, m, MaxInputs)
  \/ Stopped("A", MaxInputs)
  \/ HandlerSettles
  \/ WriteSettles
  \/ \E h \in handlers : DetachSettles(h)

Spec == InitRouter /\ [][Next]_vars

\* the allocator shared by two tabs: triggers and stop, no mutation message
NextTabs ==
  \/ \E t \in Tabs, msg \in TriggerMessages : Injected(t, msg, MaxTriggers)
  \/ \E t \in Tabs, m \in BOOLEAN : Navigated(t, "u", m, MaxTriggers)
  \/ \E t \in Tabs : Stopped(t, MaxTriggers)
  \/ HandlerSettles
  \/ \E h \in handlers : DetachSettles(h)

SpecTabs == InitRouter /\ [][NextTabs]_vars

\* the correlator of one tab: the frames of three requests, each observed once
\* the append of the frame before it is settled (appends that overlap are
\* SpecAttr's)
NextNet ==
  \/ (inflight = {} /\ Frame("A", Frames, MaxInputsNet))
  \/ WriteSettles

SpecNet == InitNet /\ [][NextNet]_vars

\* network attribution on one tab: the frames of one request, and the triggers
\* that move the current operation
NextAttr ==
  \/ \E msg \in {m \in TriggerMessages : m.action = "click"} :
       Injected("A", msg, MaxInputsAttr)
  \/ Navigated("A", "u", TRUE, MaxInputsAttr)
  \/ Frame("A", {e \in Frames : e.requestId = "r3"}, MaxInputsAttr)
  \/ HandlerSettles
  \/ WriteSettles

SpecAttr == InitRouter /\ [][NextAttr]_vars

\* the promise the handler of the n-th identifier awaits settles, the sink
\* acknowledging (no failure)
HandlerSettlesOk(n) ==
  \E h \in handlers :
    /\ h.kind # "stop" /\ EvNumber(h.ev) = n
    /\ \/ CreateOpDirSettles(h, TRUE)
       \/ ScreenshotBeforeSettles(h)
       \/ SleepEnds(h)
       \/ ScreenshotAfterSettles(h)
       \/ SnapshotSettles(h)
       \/ WriteOpEventSettles(h, TRUE)

\* two tabs with everything that can arrive while a handler is suspended, a sink
\* that does not fail, and timers and acknowledgements that come in the end
NextLive ==
  \/ \E t \in Tabs : Injected(t, [parses |-> TRUE, type |-> "user_action",
                                   action |-> "click", hasChanges |-> FALSE,
                                   changes |-> << >>], MaxInputsLive)
  \/ \E c \in ChangeLists :
       Injected("A", [parses |-> TRUE, type |-> "mutation", action |-> Undefined,
                      hasChanges |-> TRUE, changes |-> c], MaxInputsLive)
  \/ Navigated("A", "u", TRUE, MaxInputsLive)
  \/ Frame("A", {e \in Frames : e.requestId = "r3"}, MaxInputsLive)
  \/ Stopped("A", MaxInputsLive)
  \/ \E n \in 1..MaxInputsLive : HandlerSettlesOk(n)
  \/ \E w \in inflight : AppendSettles(w, TRUE)
  \/ \E h \in handlers : DetachSettles(h)

\* the event loop runs every timer that is due and every acknowledgement that
\* has come: some suspended handler goes on while one can (with finitely many
\* handlers this is no weaker than fairness for each of them)
SpecLive ==
  /\ InitRouter
  /\ [][NextLive]_vars
  /\ WF_vars(\E n \in 1..MaxInputsLive : HandlerSettlesOk(n))

\* the in-page mutation message that carries the change list c
MutationMessage(c) ==
  [parses |-> TRUE, type |-> "mutation", action |-> Undefined, hasChanges |-> TRUE,
   changes |-> c]

\* two tabs, the capture options off (the default)
InitIso ==
  /\ Init
  /\ ~screenshotEnabled /\ ~fullSnapshotEnabled
  /\ bufferSize = MaxBufferSize

\* two tabs side by side, each with its own tracer and correlator: clicks,
\* mutation batches, the frames of one request and stop on either tab, and the
\* continuations a click handler has with the capture options off
NextIso ==
  \/ \E t \in Tabs : Injected(t, [parses |-> TRUE, type |-> "user_action",
                                   action |-> "click", hasChanges |-> FALSE,
                                   changes |-> << >>], MaxInputsIso)
  \/ \E t \in Tabs : Injected(t, MutationMessage(<<RawAttr>>), MaxInputsIso)
  \/ \E t \in Tabs : Frame(t, {e \in Frames : e.requestId = "r3"}, MaxInputsIso)
  \/ \E t \in Tabs : Stopped(t, MaxInputsIso)
  \/ \E h \in handlers, ok \in BOOLEAN : CreateOpDirSettles(h, ok)
  \/ \E h \in handlers : SleepEnds(h)
  \/ \E h \in handlers, ok \in BOOLEAN : WriteOpEventSettles(h, ok)
  \/ WriteSettles
  \/ \E h \in handlers : DetachSettles(h)

SpecIso == InitIso /\ [][NextIso]_vars

\* a loaded page whose initial navigation is recorded, so that it has a
\* mutation target
InitClassify ==
  /\ InitNet
  /\ bufferSize = MaxBufferSize
  /\ currentMutationDir["A"] = InitialNavigationDir

\* the classifier: the first mutation message of the page carries any of the
\* change lists; its batch is classified and appended
NextClassify ==
  \/ (nInputs = 0 /\ \E c \in ClassifyLists(MaxNodes) :
                        handleInjectedEvent("A", MutationMessage(c)))
  \/ WriteSettles

SpecClassify == InitClassify /\ [][NextClassify]_vars

\* everything that is written for an operation, on one tab with a sink that can
\* fail: clicks and main-frame navigations, mutation batches, the frames of one
\* request, and every continuation of the handlers and of the appends
NextSink ==
  \/ \E msg \in {m \in TriggerMessages : m.action = "click"} :
       Injected("A", msg, MaxInputsSink)
  \/ Injected("A", MutationMessage(<<RawAttr>>), MaxInputsSink)
  \/ Navigated("A", "u", TRUE, MaxInputsSink)
  \/ Frame("A", {e \in Frames : e.requestId = "r3"}, MaxInputsSink)
  \/ HandlerSettles
  \/ WriteSettles

SpecSink == InitRouter /\ [][NextSink]_vars

\* ------------------------------------------ SessionManager (session-manager.ts)
\* attachToTarget(target) once target.page() has resolved, the manager running:
\* a new PageTracer is constructed, put into the map under the target (whatever
\* is there already) and started
attachToTarget(g) ==
  \E t \in Tabs :
    /\ tracerPage[t] = NoTarget
    /\ tracerPage' = [tracerPage EXCEPT ![t] = g]
    /\ pageTracers' = [pageTracers EXCEPT ![g] = t]
    /\ handlers' = handlers \cup {Handler(<< >>, t, "start", "", "", "start")}
    /\ nInputs' = nInputs + 1
    /\ UNCHANGED <<allocVars, configVars, mainVars, listening, stopped, cdpSession,
                   currentOpDir, currentMutationDir, sinkVars, netVars>>

\* tracer.start() of a blank page settles: the transport session is there and
\* the listeners are registered (a second exposeFunction on the page is caught
\* and ignored); or it rejects and attachToTarget deletes the target's entry
StartSettles(h, ok) ==
  /\ h \in handlers /\ h.pc = "start"
  /\ handlers' = Finish(h)
  /\ IF ok
       THEN /\ cdpSession' = [cdpSession EXCEPT ![h.tab] = TRUE]
            /\ listening' = [listening EXCEPT ![h.tab] = TRUE]
            /\ UNCHANGED pageTracers
       ELSE /\ pageTracers' = [pageTracers EXCEPT ![tracerPage[h.tab]] = NoTracer]
            /\ UNCHANGED <<cdpSession, listening>>
  /\ UNCHANGED <<allocVars, configVars, mainVars, tracerPage, stopped, currentOpDir,
                 currentMutationDir, sinkVars, netVars, nInputs>>

\* the manager is running and no page is tracked yet
InitAttach ==
  /\ eventCount = 0 /\ opCount = 0 /\ issued = << >>
  /\ screenshotEnabled = FALSE /\ fullSnapshotEnabled = FALSE
  /\ bufferSize = MaxBufferSize
  /\ stopped = [t \in Tabs |-> FALSE]
  /\ cdpSession = [t \in Tabs |-> FALSE]
  /\ currentOpDir = [t \in Tabs |-> NoDir]
  /\ currentMutationDir = [t \in Tabs |-> NoDir]
  /\ handlers = {} /\ opDirs = {} /\ calls = {}
  /\ mutationsJsonl = << >> /\ networkJsonl = << >> /\ inflight = {}
  /\ pendingRequests = [t \in Tabs |-> << >>]
  /\ insertedAt = [t \in Tabs |-> [r \in ReqIds |-> 0]]
  /\ nInputs = 0
  /\ pageTracers = [g \in Targets |-> NoTracer]
  /\ tracerPage = [t \in Tabs |-> NoTarget]
  /\ listening = [t \in Tabs |-> FALSE]
  /\ Running

\* attach signals for the pages, and the navigation notices of a page, which
\* every tracer listening on the page is given
NextAttach ==
  \/ \E g \in Targets : nInputs < MaxInputsAttach /\ attachToTarget(g)
  \/ \E h \in handlers, ok \in BOOLEAN : StartSettles(h, ok)
  \/ \E t \in Tabs : listening[t] /\ Navigated(t, "u", TRUE, MaxInputsAttach)
  \/ \E h \in handlers, ok \in BOOLEAN : CreateOpDirSettles(h, ok)
  \/ \E h \in handlers, ok \in BOOLEAN : WriteOpEventSettles(h, ok)
  \/ \E h \in handlers : SnapshotSettles(h)

SpecAttach == InitAttach /\ [][NextAttach]_vars

\* ------------------------------------------------ start-up and shutdown (main.ts)
\* the transport to the browser is open: browser.disconnect() has not been
\* called; once it has, every call over the transport rejects and no frame comes
Connected == shutdownPc \notin {"disconnect", "exit"}

\* the process has not exited
Alive == shutdownPc # "exit"

\* the tracers in the manager's map
Tracked == {t \in Tabs : \E g \in Targets : pageTracers[g] = t}

\* attachToTarget(target) up to `await target.page()`: the running check
attachToTargetBegins(g) ==
  IF ~running THEN UNCHANGED vars
  ELSE /\ handlers' = handlers \cup {Handler(<< >>, NoTracer, "attach", g, "", "page")}
       /\ nInputs' = nInputs + 1
       /\ UNCHANGED <<allocVars, configVars, managerVars, mainVars, stopped, cdpSession,
                      currentOpDir, currentMutationDir, sinkVars, netVars>>

\* target.page() settles: with no page attachToTarget returns; with a page a
\* PageTracer is constructed, put into the map and start() is called, which
\* suspends at `await this.page.createCDPSession()`. running is not read again.
PageSettles(h, hasPage) ==
  /\ h \in handlers /\ h.pc = "page"
  /\ hasPage => Connected
  /\ IF ~hasPage
       THEN /\ handlers' = Finish(h)
            /\ UNCHANGED <<pageTracers, tracerPage>>
       ELSE \E t \in Tabs :
              /\ tracerPage[t] = NoTarget
              /\ tracerPage' = [tracerPage EXCEPT ![t] = h.action]
              /\ pageTracers' = [pageTracers EXCEPT ![h.action] = t]
              /\ handlers' = (handlers \ {h}) \cup
                   {Handler(<< >>, t, "start", "", "", "createCDPSession")}
  /\ UNCHANGED <<allocVars, configVars, mainVars, listening, stopped, cdpSession,
                 currentOpDir, currentMutationDir, sinkVars, netVars, nInputs>>

\* start() rejects: the catch of attachToTarget deletes the target's entry
StartRejected(h) ==
  /\ handlers' = Finish(h)
  /\ pageTracers' = [pageTracers EXCEPT ![tracerPage[h.tab]] = NoTracer]

\* createCDPSession() settles: this.cdpSession is assigned (stopped is not
\* read), start() goes on to networkTracker.setup; or start() rejects
CreateCDPSessionSettles(h, ok) ==
  /\ h \in handlers /\ h.pc = "createCDPSession"
  /\ ok => Connected
  /\ IF ok
       THEN /\ cdpSession' = [cdpSession EXCEPT ![h.tab] = TRUE]
            /\ handlers' = Advance(h, "setup")
            /\ UNCHANGED pageTracers
       ELSE /\ StartRejected(h)
            /\ UNCHANGED cdpSession
  /\ UNCHANGED <<allocVars, configVars, mainVars, tracerPage, listening, stopped,
                 currentOpDir, currentMutationDir, sinkVars, netVars, nInputs>>

\* the rest of start() settles: Network.enable, the exposed function and the
\* injected script are there, the listeners are registered, and for a page that
\* is loaded recordNavigation(currentUrl, 'main') is called (stopped is not
\* read); or one of the awaited calls rejects and start() rejects
SetupSettles(h, ok, loaded) ==
  /\ h \in handlers /\ h.pc = "setup"
  /\ ok => Connected
  /\ IF ~ok
       THEN /\ StartRejected(h)
            /\ UNCHANGED <<allocVars, listening>>
       ELSE /\ listening' = [listening EXCEPT ![h.tab] = TRUE]
            /\ UNCHANGED pageTracers
            /\ IF loaded
                 THEN /\ AllocateEventId
                      /\ handlers' = (handlers \ {h}) \cup
                           {Handler(EventIdOf(eventCount'), h.tab, "nav", "navigation",
                                    "main", "createOpDir")}
                      /\ UNCHANGED opCount
                 ELSE /\ handlers' = Finish(h)
                      /\ UNCHANGED allocVars
  /\ UNCHANGED <<configVars, mainVars, tracerPage, stopped, cdpSession, currentOpDir,
                 currentMutationDir, sinkVars, netVars, nInputs>>

\* SIGINT and SIGTERM
Signals == {"SIGINT", "SIGTERM"}

\* a plausible slip: the flag is not looked at
AlreadyShuttingDownUnchecked(signal) == FALSE

\* if (shuttingDown) return
AlreadyShuttingDown(signal) == shuttingDown

\* handleSignal(signal): shutdown() is entered and runs to its first suspension.
\* SessionManager.stop() clears running and calls stop() on every tracer in the
\* map (stopped = true, and detach() where there is a session); with a detach to
\* await it suspends, with none it clears the map and returns, and shutdown()
\* goes on to `await browser.disconnect()`
handleSignal(signal) ==
  IF AlreadyShuttingDown(signal) THEN UNCHANGED vars
  ELSE LET awaited == {t \in Tracked : cdpSession[t]} IN
       /\ shuttingDown' = TRUE
       /\ shutdowns' = shutdowns + 1
       /\ running' = FALSE
       /\ stopped' = [t \in Tabs |-> stopped[t] \/ t \in Tracked]
       /\ handlers' = handlers \cup
            {Handler(<< >>, t, "stop", "all", "", "detach") : t \in awaited}
       /\ IF awaited = {}
            THEN /\ pageTracers' = [g \in Targets |-> NoTracer]
                 /\ shutdownPc' = "disconnect"
            ELSE /\ UNCHANGED pageTracers
                 /\ shutdownPc' = "stop"
       /\ nInputs' = nInputs + 1
       /\ UNCHANGED <<allocVars, configVars, tracerPage, listening, cdpSession,
                      currentOpDir, currentMutationDir, sinkVars, netVars>>

\* the Promise.all of SessionManager.stop() resolves: the map is cleared, stop()
\* returns and shutdown() calls browser.disconnect()
StopResolves ==
  /\ shutdownPc = "stop"
  /\ ~\E h \in handlers : h.kind = "stop" /\ h.action = "all"
  /\ pageTracers' = [g \in Targets |-> NoTracer]
  /\ shutdownPc' = "disconnect"
  /\ UNCHANGED <<allocVars, configVars, tracerPage, listening, running, shuttingDown,
                 shutdowns, routerVars, sinkVars, netVars, nInputs>>

\* browser.disconnect() settles: process.exit
DisconnectSettles ==
  /\ shutdownPc = "disconnect"
  /\ shutdownPc' = "exit"
  /\ UNCHANGED <<allocVars, configVars, managerVars, running, shuttingDown, shutdowns,
                 routerVars, sinkVars, netVars, nInputs>>

\* the manager is running and no page is tracked yet; the capture options are
\* on, so that a navigation takes its snapshot
InitLife ==
  /\ eventCount = 0 /\ opCount = 0 /\ issued = << >>
  /\ screenshotEnabled = TRUE /\ fullSnapshotEnabled = TRUE
  /\ bufferSize = MaxBufferSize
  /\ stopped = [t \in Tabs |-> FALSE]
  /\ cdpSession = [t \in Tabs |-> FALSE]
  /\ currentOpDir = [t \in Tabs |-> NoDir]
  /\ currentMutationDir = [t \in Tabs |-> NoDir]
  /\ handlers = {} /\ opDirs = {} /\ calls = {}
  /\ mutationsJsonl = << >> /\ networkJsonl = << >> /\ inflight = {}
  /\ pendingRequests = [t \in Tabs |-> << >>]
  /\ insertedAt = [t \in Tabs |-> [r \in ReqIds |-> 0]]
  /\ nInputs = 0
  /\ pageTracers = [g \in Targets |-> NoTracer]
  /\ tracerPage = [t \in Tabs |-> NoTarget]
  /\ listening = [t \in Tabs |-> FALSE]
  /\ Running

\* the life of the process after start-up: pages are created and attached, their
\* tracers start step by step, signals arrive, frames are observed by the tracers
\* that listen, and everything that is awaited settles; the sink does not fail
\* and the process does nothing once it has exited
NextLifecycle ==
  \/ \E g \in Targets : Alive /\ nInputs < MaxInputsLifecycle /\ attachToTargetBegins(g)
  \/ \E h \in handlers, hasPage \in BOOLEAN : Alive /\ PageSettles(h, hasPage)
  \/ \E h \in handlers, ok \in BOOLEAN : Alive /\ CreateCDPSessionSettles(h, ok)
  \/ \E h \in handlers, ok \in BOOLEAN, loaded \in BOOLEAN :
       Alive /\ SetupSettles(h, ok, loaded)
  \/ \E signal \in Signals : Alive /\ nInputs < MaxInputsLifecycle /\ handleSignal(signal)
  \/ (Alive /\ StopResolves)
  \/ DisconnectSettles
  \/ \E t \in Tabs : /\ Connected /\ listening[t]
                     /\ Frame(t, {e \in Frames : e.requestId = "r3"}, MaxInputsLifecycle)
  \/ \E h \in handlers : Alive /\ CreateOpDirSettles(h, TRUE)
  \/ \E h \in handlers : Alive /\ WriteOpEventSettles(h, TRUE)
  \/ \E h \in handlers : Alive /\ SnapshotSettles(h)
  \/ \E w \in inflight : Alive /\ AppendSettles(w, TRUE)
  \/ \E h \in handlers : Alive /\ DetachSettles(h)

SpecLifecycle == InitLife /\ [][NextLifecycle]_vars

\* ------------------------------------------------------------------ claims
\* the tab of the one-tab specifications
ActiveTab == "A"

\* the appends to mutations.jsonl among the writes ws
MutationWrites(ws) == {w \in ws : w.file = "mutations.jsonl"}

\* the appends to network.jsonl among the writes ws
NetworkWrites(ws) == {w \in ws : w.file = "network.jsonl"}

\* how often a record stamped b lies in a file of `files` or in a write of ws
Copies(files, ws, b) ==
  Cardinality({w \in ws : (IF "bid" \in DOMAIN w.rec THEN w.rec.bid ELSE w.rec.fid) = b})
  + Cardinality({<<o, i>> \in UNION {{<<o, i>> : i \in 1..Len(files[o])} :
                                       o \in DOMAIN files} :
                   (IF "bid" \in DOMAIN files[o][i] THEN files[o][i].bid
                    ELSE files[o][i].fid) = b})

\* a suspended handler of a trigger that moves the attribution targets
TargetUpdating(h) == h.kind = "user" \/ (h.kind = "nav" /\ h.frameType = "main")

\* C1: the k-th call of the shared allocator returns the number k, zero-padded
\* to six digits: no number twice, none skipped, increasing in call order, also
\* when the calls come from different tabs.
C1_GaplessIds ==
  /\ Len(issued) = eventCount
  /\ \A k \in 1..Len(issued) : EvNumber(issued[k]) = k /\ Len(issued[k]) = 6
  /\ \A j, k \in 1..Len(issued) : j # k => issued[j] # issued[k]

\* C1 witness: both tabs have triggered and both handlers are still suspended
C1_Witness ==
  \E h1, h2 \in handlers :
    /\ h1.tab = "A" /\ h2.tab = "B"
    /\ h1.pc = "createOpDir" /\ h2.pc = "createOpDir"
    /\ EvNumber(h1.ev) # EvNumber(h2.ev)

\* C2 (as claimed): a user-action trigger sets currentMutationDir and
\* currentOpDir to its operation in the step that allocates its identifier, so a
\* mutation batch that arrives while the handler of an earlier-observed trigger
\* is suspended is never given to an operation older than that trigger's.
C2_TargetsSetWithAllocation ==
  [][/\ \A h \in handlers' \ handlers :
          (h.kind = "user" /\ h.pc = "createOpDir") =>
            /\ currentMutationDir'[h.tab] = HandlerDir(h)
            /\ currentOpDir'[h.tab] = HandlerDir(h)
     /\ \A w \in MutationWrites(inflight' \ inflight) :
          \A h \in handlers :
            (h.kind = "user" /\ h.tab = w.tab) => SeqOf(w.opDir) >= EvNumber(h.ev)
    ]_vars

\* C3 (as claimed): while the handler of a main-frame navigation is suspended
\* (so that another event of the tab can be handled), both targets already
\* refer to its operation or to a later one.
C3_NavigationTargetsImmediate ==
  \A h \in handlers :
    (h.kind = "nav" /\ h.frameType = "main") =>
      /\ SeqOf(currentOpDir[h.tab]) >= EvNumber(h.ev)
      /\ SeqOf(currentMutationDir[h.tab]) >= EvNumber(h.ev)

\* C4 (as claimed, its first half): neither target of a tab ever moves to an
\* operation with a lower sequence number.
C4_TargetsNeverMoveBack ==
  [][\A t \in Tabs :
       /\ SeqOf(currentOpDir'[t]) >= SeqOf(currentOpDir[t])
       /\ SeqOf(currentMutationDir'[t]) >= SeqOf(currentMutationDir[t])
    ]_vars

\* C5: a mutation message causes at most one append; the append names the
\* directory that was currentMutationDir when the message arrived and the line
\* ends in that directory's file, whatever the target is by then; no record is
\* appended twice; with no target the message changes nothing.
C5_BatchGoesToTargetAtArrival ==
  [][LET new == MutationWrites(inflight' \ inflight)
         isBatch == nInputs' # nInputs /\ eventCount' = eventCount /\ stopped' = stopped
     IN /\ Cardinality(new) <= 1
        /\ new # {} => isBatch
        /\ \A w \in new :
             /\ w.opDir = currentMutationDir[w.tab]
             /\ w.opDir # NoDir
             /\ w.rec.bid = nInputs'
        /\ (isBatch /\ currentMutationDir[ActiveTab] = NoDir) =>
             UNCHANGED <<allocVars, configVars, managerVars, mainVars, routerVars, sinkVars, netVars>>
        /\ \A o \in DOMAIN mutationsJsonl' :
             \A i \in 1..Len(mutationsJsonl'[o]) : mutationsJsonl'[o][i].at = o
        /\ \A b \in 1..nInputs' :
             Copies(mutationsJsonl', MutationWrites(inflight'), b) <= 1
    ]_vars

\* C5 witness: a batch is stored under the operation that was the target when it
\* arrived, and the target has moved on since
C5_Witness ==
  \E o \in DOMAIN mutationsJsonl :
    /\ Len(mutationsJsonl[o]) >= 1
    /\ currentMutationDir[ActiveTab] # o

\* C6 (as claimed): while a click or submit handler is in its settle delay and
\* no identifier has been allocated since its own (so no trigger came during the
\* window), a mutation batch that arrives is appended to its operation.
C6_SettleWindowBatches ==
  [][\A h \in handlers :
       (/\ h.kind = "user" /\ isClickLike(h.action) /\ h.pc = "sleep"
        /\ EvNumber(h.ev) = eventCount
        /\ nInputs' # nInputs /\ eventCount' = eventCount /\ stopped' = stopped) =>
         \A w \in MutationWrites(inflight' \ inflight) :
           w.tab = h.tab => w.opDir = HandlerDir(h)
    ]_vars

\* the network records appended or being appended
NetworkRecords ==
  {w.rec : w \in NetworkWrites(inflight)}
  \cup UNION {{networkJsonl[o][i] : i \in 1..Len(networkJsonl[o])} :
                o \in DOMAIN networkJsonl}

\* the keys of a pending map, in its order
Keys(m) == [i \in 1..Len(m) |-> m[i].requestId]

\* C7: a network frame yields at most one record (exactly one when the tab has a
\* current operation); the record names the directory that was currentOpDir when
\* the frame was observed and ends in that directory's file; with no current
\* operation nothing is appended, and a request-sent frame still inserts its
\* pending entry.
C7_FrameGoesToCurrentOp ==
  [][LET new == NetworkWrites(inflight' \ inflight)
         isFrame == nInputs' # nInputs /\ eventCount' = eventCount
     IN /\ Cardinality(new) <= 1
        /\ new # {} => isFrame
        /\ \A w \in new :
             /\ w.opDir = currentOpDir[w.tab]
             /\ w.opDir # NoDir
             /\ w.rec.fid = nInputs'
        /\ isFrame =>
             Cardinality(new) = (IF currentOpDir[ActiveTab] = NoDir THEN 0 ELSE 1)
        /\ \A o \in DOMAIN networkJsonl' :
             \A i \in 1..Len(networkJsonl'[o]) : networkJsonl'[o][i].at = o
        /\ \A b \in 1..nInputs' :
             Copies(networkJsonl', NetworkWrites(inflight'), b) <= 1
        /\ \A e \in Frames :
             OnRequestWillBeSent(ActiveTab, e) =>
               /\ MapHas(pendingRequests'[ActiveTab], e.requestId)
               /\ MapGet(pendingRequests'[ActiveTab], e.requestId).url = e.url
    ]_vars

\* C7 witness: the request-sent frame of r3 was observed before the tab had an
\* operation (its pending entry is there, no record of it is), and the response
\* frame observed once a click had made an operation current is stored there
C7_Witness ==
  /\ MapHas(pendingRequests[ActiveTab], "r3")
  /\ \A rec \in NetworkRecords : rec.type # "network_request"
  /\ \E o \in DOMAIN networkJsonl : \E i \in 1..Len(networkJsonl[o]) :
       /\ networkJsonl[o][i].type = "network_response"
       /\ networkJsonl[o][i].fid > 1
       /\ o = currentOpDir[ActiveTab]
       /\ o.type = "click"

\* C8: the pending map of a tab never holds more than bufferSize entries.
C8_PendingBounded ==
  \A t \in Tabs : Len(pendingRequests[t]) <= bufferSize

\* C8 witness: the map is full after three requests were observed with room for
\* two: the third insertion found the map at capacity
C8_Witness ==
  /\ bufferSize = 2
  /\ Len(pendingRequests[ActiveTab]) = bufferSize
  /\ \A r \in ReqIds :
       \E rec \in NetworkRecords : rec.type = "network_request" /\ rec.requestId = r

\* the pending key that was inserted first
Oldest(t) ==
  CHOOSE r \in ReqIds :
    /\ insertedAt[t][r] > 0
    /\ \A q \in ReqIds : insertedAt[t][q] > 0 => insertedAt[t][r] <= insertedAt[t][q]

\* C9: a request-sent frame with a new requestId that finds the map at capacity
\* removes exactly the entry inserted first, keeps every other entry as it is and
\* inserts the new one; a response-received frame leaves the oldest entry the
\* oldest.
C9_EvictsOldestInserted ==
  [][\A e \in Frames :
       /\ (/\ OnRequestWillBeSent(ActiveTab, e)
           /\ Len(pendingRequests[ActiveTab]) = bufferSize
           /\ ~MapHas(pendingRequests[ActiveTab], e.requestId)) =>
            LET before == pendingRequests[ActiveTab]
                after == pendingRequests'[ActiveTab]
                gone == Oldest(ActiveTab)
            IN /\ {after[i] : i \in 1..Len(after)} =
                    ({before[i] : i \in 1..Len(before)}
                       \ {MapGet(before, gone)})
                    \cup {[requestId |-> e.requestId, url |-> e.url,
                           frameId |-> Coalesce(e.frameId, "")]}
               /\ MapHas(before, gone)
               /\ Len(after) = Len(before)
               /\ \A r \in ReqIds \ {gone, e.requestId} :
                    insertedAt'[ActiveTab][r] = insertedAt[ActiveTab][r]
       /\ (/\ OnResponseReceived(ActiveTab, e)
           /\ MapHas(pendingRequests[ActiveTab], e.requestId)) =>
            /\ pendingRequests'[ActiveTab] # << >>
            /\ Oldest(ActiveTab)' = Oldest(ActiveTab)
            /\ Keys(pendingRequests'[ActiveTab]) = Keys(pendingRequests[ActiveTab])
    ]_vars

\* C9 witness: with room for two, r1, r2 and r3 were requested in that order and
\* the request of r3 evicted r1, the entry inserted first
C9_Witness ==
  /\ bufferSize = 2
  /\ Keys(pendingRequests[ActiveTab]) = <<"r2", "r3">>
  /\ insertedAt[ActiveTab]["r1"] = 0
  /\ \E a, b, c \in NetworkRecords :
       /\ a.type = "network_request" /\ a.requestId = "r1" /\ a.fid = 1
       /\ b.type = "network_request" /\ b.requestId = "r2" /\ b.fid = 2
       /\ c.type = "network_request" /\ c.requestId = "r3" /\ c.fid = 3

\* C10: a load-finished frame removes the pending entry of its requestId and no
\* other; when the tab has a current operation it yields exactly one finished
\* record, which carries the URL and frame of the pending entry, or empty ones
\* when there is no such entry.
C10_FinishedDegrades ==
  [][\A e \in Frames :
       OnLoadingFinished(ActiveTab, e.requestId) =>
         LET before == pendingRequests[ActiveTab]
             new == NetworkWrites(inflight' \ inflight)
         IN /\ pendingRequests'[ActiveTab] =
                 SelectSeq(before, LAMBDA p : p.requestId # e.requestId)
            /\ currentOpDir[ActiveTab] # NoDir =>
                 /\ Cardinality(new) = 1
                 /\ \A w \in new :
                      /\ w.rec.type = "network_finished"
                      /\ w.rec.requestId = e.requestId
                      /\ IF MapHas(before, e.requestId)
                           THEN /\ w.rec.url = MapGet(before, e.requestId).url
                                /\ w.rec.frameUrl = MapGet(before, e.requestId).frameId
                           ELSE w.rec.url = "" /\ w.rec.frameUrl = ""
    ]_vars

\* C10 witness: a request was observed, evicted by a later request, and its
\* load-finished frame then gave a finished record with empty URL and frame
C10_Witness ==
  \E a, b \in NetworkRecords :
    /\ a.type = "network_request" /\ b.type = "network_finished"
    /\ a.requestId = b.requestId /\ a.fid < b.fid
    /\ a.url # "" /\ b.url = "" /\ b.frameUrl = ""

\* C11: a response-received frame leaves the pending map as it is (keys, values
\* and order), whether or not its requestId is pending, and when the tab has a
\* current operation it yields one response record of that requestId for it.
C11_ResponseLeavesPending ==
  [][\A e \in Frames :
       OnResponseReceived(ActiveTab, e) =>
         LET new == NetworkWrites(inflight' \ inflight)
         IN /\ pendingRequests' = pendingRequests
            /\ currentOpDir[ActiveTab] # NoDir =>
                 /\ Cardinality(new) = 1
                 /\ \A w \in new :
                      /\ w.rec.type = "network_response"
                      /\ w.rec.requestId = e.requestId
                      /\ w.rec.url = e.url
                      /\ w.opDir = currentOpDir[ActiveTab]
    ]_vars

\* C11 witness: r1 is pending still, and responses were recorded for r1, which
\* is pending, and for r3, which never was
C11_Witness ==
  /\ Keys(pendingRequests[ActiveTab]) = <<"r1">>
  /\ insertedAt[ActiveTab]["r3"] = 0
  /\ \E a, b \in NetworkRecords :
       /\ a.type = "network_response" /\ a.requestId = "r1"
       /\ b.type = "network_response" /\ b.requestId = "r3"

\* the URLs a framenavigated notice carries
NoticeUrls == {"", "about:blank", "u"}

\* C12: on a tab whose tracer is stopped, no in-page message and no navigation
\* notice has any effect: handling it allocates no identifier, makes no sink
\* call and leaves both targets (and every other variable) as they are.
C12_StoppedIgnores ==
  \A t \in Tabs :
    stopped[t] =>
      /\ \A msg \in InjectedMessages :
           ~ENABLED (handleInjectedEvent(t, msg) /\ vars' # vars)
      /\ \A url \in NoticeUrls, m \in BOOLEAN :
           ~ENABLED (handleNavigation(t, url, m) /\ vars' # vars)

\* C12 witness: the tab was stopped with an operation as its target, and inputs
\* are still to come
C12_Witness ==
  /\ stopped[ActiveTab]
  /\ currentOpDir[ActiveTab] # NoDir
  /\ currentMutationDir[ActiveTab] # NoDir
  /\ nInputs < MaxInputs

\* C13 (as claimed): once stop() was called on a tab, a click or submit handler
\* that was suspended in its settle delay makes no further sink call for its
\* operation when the delay is over: no post-action screenshot, no snapshot, no
\* trigger-record write.
C13_NoWriteAfterStop ==
  [][\A h \in handlers :
       (/\ h.kind = "user" /\ isClickLike(h.action)
        /\ h.pc = "sleep" /\ stopped[h.tab]) =>
         \A c \in calls' \ calls : c.opDir # HandlerDir(h)
    ]_vars

\* the order of the suspensions of saveUserAction
Rank(pc) ==
  CASE pc = "createOpDir" -> 0
    [] pc = "before" -> 1
    [] pc = "sleep" -> 2
    [] pc = "after" -> 3
    [] pc = "snapshot" -> 4
    [] pc = "writeOpEvent" -> 5
    [] OTHER -> 6

\* C14: only a click or submit handler is ever in the settle delay; a handler
\* only moves forward through its suspensions, so it is in the delay at most
\* once and makes each finalize call at most once; a click or submit handler
\* reaches its finalize calls from the delay only, so it is in the delay exactly
\* once before them.
C14_SettleDelayOnce ==
  [][/\ \A h2 \in handlers' \ handlers :
          h2.kind = "user" =>
            /\ h2.pc = "sleep" => h2.action \in {"click", "submit"}
            /\ Cardinality({h \in handlers' : h.ev = h2.ev}) = 1
            /\ IF \E h \in handlers : h.ev = h2.ev
                 THEN \A h \in handlers :
                        h.ev = h2.ev =>
                          /\ Rank(h2.pc) > Rank(h.pc)
                          /\ (h2.action \in {"click", "submit"} /\ Rank(h2.pc) > 2)
                               => Rank(h.pc) >= 2
                 ELSE /\ h2.pc = "createOpDir"
                      /\ EvNumber(h2.ev) = eventCount' /\ eventCount' = eventCount + 1
     /\ \A c \in calls' \ calls :
          /\ Cardinality(calls' \ calls) = 1
          /\ \E h2 \in handlers' \ handlers :
               HandlerDir(h2) = c.opDir /\ CallAt(h2.pc) = c.call
    ]_vars

\* C14 witness: a click handler is past its settle delay, writing its trigger
\* record, and a keydown handler has made its trigger-record write without one
C14_Witness ==
  /\ \E h \in handlers :
       h.kind = "user" /\ h.action = "click" /\ h.pc = "writeOpEvent"
  /\ \E c \in calls : c.call = "writeOpEvent" /\ c.opDir.type = "keydown"

\* C15: with timers and sink acknowledgements that come in the end and a sink
\* that does not fail, a click or submit handler that is in its settle delay
\* leads to the trigger-record write of its operation, made and acknowledged,
\* whatever arrives on this or the other tab meanwhile, a stop() included.
C15_DelayRunsToCompletion ==
  \A n \in 1..MaxInputsLive :
    (\E h \in handlers : h.kind = "user" /\ EvNumber(h.ev) = n /\ h.pc = "sleep")
      ~> (/\ \E c \in calls : c.call = "writeOpEvent" /\ SeqOf(c.opDir) = n
          /\ \A h \in handlers : h.kind = "stop" \/ EvNumber(h.ev) # n)

\* C15 witness: the tab was stopped while the click handler was suspended, and
\* the trigger record of the click was written all the same
C15_Witness ==
  /\ stopped[ActiveTab]
  /\ \E c \in calls :
       /\ c.call = "writeOpEvent" /\ c.opDir.type = "click" /\ SeqOf(c.opDir) = 1
       /\ c.opDir = currentOpDir[ActiveTab]
  /\ \A h \in handlers : h.kind = "stop"

\* C16: the identifier of a trigger is allocated in the step that handles the
\* trigger and in no other; it is greater than every identifier allocated before,
\* those of the handlers still suspended included; the operation directory a
\* handler creates later carries that identifier.
C16_TriggerOrderIsSequenceOrder ==
  [][/\ \A h2 \in handlers' \ handlers :
          (h2.kind # "stop" /\ ~\E h \in handlers : h.kind # "stop" /\ h.ev = h2.ev) =>
            /\ h2.pc = "createOpDir"
            /\ issued' = Append(issued, h2.ev)
            /\ nInputs' = nInputs + 1
            /\ \A k \in 1..Len(issued) : EvNumber(issued[k]) < EvNumber(h2.ev)
            /\ \A h \in handlers : h.kind # "stop" => EvNumber(h.ev) < EvNumber(h2.ev)
            /\ \A o \in opDirs : SeqOf(o) < EvNumber(h2.ev)
     /\ issued' # issued =>
          \E h2 \in handlers' \ handlers : issued' = Append(issued, h2.ev)
     /\ \A o \in opDirs' \ opDirs :
          \E h \in handlers : h.pc = "createOpDir" /\ HandlerDir(h) = o
    ]_vars

\* C16 witness: the first click of the tab is in its settle delay when the second
\* arrives; the second has the greater number
C16_Witness ==
  \E h1, h2 \in handlers :
    /\ h1.tab = ActiveTab /\ h2.tab = ActiveTab
    /\ h1.kind = "user" /\ h1.pc = "sleep"
    /\ h2.kind = "user" /\ h2.pc = "createOpDir"
    /\ EvNumber(h1.ev) < EvNumber(h2.ev)

\* C17 (as claimed): when no createOpDir call is outstanding, the operations in
\* the sink carry the numbers 1..k without a gap, also when calls have failed,
\* and opTotal (the count of created operations) is the number of identifiers
\* issued.
C17_CreatedOpsGapless ==
  (\A h \in handlers : h.pc # "createOpDir") =>
    /\ {SeqOf(o) : o \in opDirs} = 1..opCount
    /\ opCount = eventCount

\* C18: the step in which createOpDir fails for a trigger ends its handler,
\* changes neither target, makes no sink call and stops nothing; no capture or
\* write call is ever made for a directory that was not created, no target ever
\* refers to one, and a directory is only created for a handler that awaits it
\* (no retry).
C18_FailedCreationDropsOperation ==
  [][/\ \A h \in handlers :
          (h.pc = "createOpDir" /\ h \notin handlers' /\ HandlerDir(h) \notin opDirs') =>
            /\ UNCHANGED <<currentOpDir, currentMutationDir, calls, inflight,
                           allocVars, stopped, cdpSession>>
            /\ handlers' = handlers \ {h}
     /\ \A c \in calls' : c.opDir \in opDirs'
     /\ \A t \in Tabs :
          /\ currentOpDir'[t] # NoDir => currentOpDir'[t] \in opDirs'
          /\ currentMutationDir'[t] # NoDir => currentMutationDir'[t] \in opDirs'
     /\ \A o \in opDirs' \ opDirs :
          \E h \in handlers : h.pc = "createOpDir" /\ HandlerDir(h) = o
    ]_vars

\* C18 witness: the creation of operation 1 failed, and the next trigger of the
\* tab has created operation 2, which is the target of the tab
C18_Witness ==
  /\ eventCount = 2
  /\ \A o \in opDirs : SeqOf(o) = 2
  /\ \A h \in handlers : h.kind # "stop" => EvNumber(h.ev) = 2
  /\ SeqOf(currentOpDir[ActiveTab]) = 2
  /\ SeqOf(currentMutationDir[ActiveTab]) = 2

\* an in-page message that cannot be parsed, or that is neither a user action
\* with an action kind nor a mutation message with a change list
Malformed(msg) ==
  \/ ~msg.parses
  \/ /\ ~(msg.type = "user_action" /\ msg.action # Undefined)
     /\ ~(msg.type = "mutation" /\ msg.hasChanges)

\* C19: in every state, handling a malformed in-page message changes nothing:
\* no identifier, no sink call, targets and pending map as they were (so the
\* next message is handled in the state the tab was in).
C19_MalformedDiscarded ==
  \A t \in Tabs : \A msg \in InjectedMessages :
    Malformed(msg) => ~ENABLED (handleInjectedEvent(t, msg) /\ vars' # vars)

\* C19 witness: a running tab with an operation as target, a handler suspended
\* and inputs still to come, among them the three kinds of malformed message
C19_Witness ==
  /\ ~stopped[ActiveTab]
  /\ currentMutationDir[ActiveTab] # NoDir
  /\ \E h \in handlers : h.tab = ActiveTab /\ h.pc = "sleep"
  /\ nInputs < MaxInputs
  /\ \E m1, m2, m3 \in InjectedMessages :
       /\ Malformed(m1) /\ ~m1.parses
       /\ Malformed(m2) /\ m2.parses /\ m2.type = "user_action"
       /\ Malformed(m3) /\ m3.parses /\ m3.type = "mutation"

\* C20 (as claimed): whatever attach signals came, a page has at most one active
\* tracer, that is one tracer with navigation and network listeners on it.
C20_OneTrackerPerTab ==
  \A g \in Targets :
    Cardinality({t \in Tabs : tracerPage[t] = g /\ listening[t] /\ ~stopped[t]}) <= 1

\* what belongs to the tracer and the correlator of tab t alone
TabState(t) ==
  <<stopped[t], cdpSession[t], currentOpDir[t], currentMutationDir[t],
    pendingRequests[t], {h \in handlers : h.tab = t}, {w \in inflight : w.tab = t}>>

\* an event of tab t is handled: a message, a frame or stop() arrives, or a
\* promise that a handler or an append of the tab awaits settles
EventOn(t) ==
  \/ \E msg \in InjectedMessages : handleInjectedEvent(t, msg)
  \/ \E e \in Frames :
       \/ OnRequestWillBeSent(t, e)
       \/ OnResponseReceived(t, e)
       \/ OnLoadingFinished(t, e.requestId)
  \/ Stop(t)
  \/ \E h \in handlers :
       /\ h.tab = t
       /\ \/ \E ok \in BOOLEAN : CreateOpDirSettles(h, ok)
          \/ ScreenshotBeforeSettles(h)
          \/ SleepEnds(h)
          \/ ScreenshotAfterSettles(h)
          \/ SnapshotSettles(h)
          \/ \E ok \in BOOLEAN : WriteOpEventSettles(h, ok)
          \/ DetachSettles(h)
  \/ \E w \in inflight : w.tab = t /\ \E ok \in BOOLEAN : AppendSettles(w, ok)

\* C21: a step that handles an event of one tab leaves the other tab's current
\* operation, mutation target and pending map as they are, and its stopped
\* flag, transport session, suspended handlers and outstanding appends too; of
\* what the other tab's handlers read, only the shared counter can have moved
\* (the configuration never changes).
C21_TabsIsolated ==
  [][/\ \A t \in Tabs :
          (\E u \in Tabs \ {t} : TabState(u)' # TabState(u)) => ~EventOn(t)
     /\ UNCHANGED configVars
    ]_vars

\* C21 witness: tab B has its own operation as target and a pending request of
\* its own, and a click on tab A, handled after that, has made A's operation
\* the target of A
C21_Witness ==
  /\ SeqOf(currentOpDir["B"]) = 1
  /\ SeqOf(currentMutationDir["B"]) = 1
  /\ MapHas(pendingRequests["B"], "r3")
  /\ SeqOf(currentOpDir["A"]) = 2
  /\ pendingRequests["A"] = << >>

\* the mutation batches appended or being appended
MutationRecords ==
  {w.rec : w \in MutationWrites(inflight)}
  \cup UNION {{mutationsJsonl[o][i] : i \in 1..Len(mutationsJsonl[o])} :
                o \in DOMAIN mutationsJsonl}

\* the in-page mutation message whose change list is empty
EmptyBatch ==
  [parses |-> TRUE, type |-> "mutation", action |-> Undefined, hasChanges |-> TRUE,
   changes |-> << >>]

\* C22: a step that handles a mutation message whose change list is empty, with
\* or without a mutation target, issues no append and changes nothing else of
\* the router, the allocator, the sink or the correlator; no append that is
\* issued and no line of a mutations.jsonl has an empty change list.
C22_EmptyBatchNeverStored ==
  [][/\ \A t \in Tabs :
          handleInjectedEvent(t, EmptyBatch) =>
            UNCHANGED <<allocVars, routerVars, sinkVars, netVars>>
     /\ \A w \in MutationWrites(inflight' \ inflight) : Len(w.rec.changes) > 0
     /\ \A o \in DOMAIN mutationsJsonl' :
          \A i \in 1..Len(mutationsJsonl'[o]) : Len(mutationsJsonl'[o][i].changes) > 0
    ]_vars

\* C22 witness: the tab has a mutation target, a batch with changes is stored
\* under it, and an empty batch can arrive and be handled
C22_Witness ==
  /\ currentMutationDir[ActiveTab] # NoDir
  /\ Len(mutationsJsonl[currentMutationDir[ActiveTab]]) > 0
  /\ EmptyBatch \in InjectedMessages
  /\ ENABLED (Injected(ActiveTab, EmptyBatch, MaxInputs) /\ nInputs' # nInputs)

\* C23 (as claimed): in every operation's mutations.jsonl the batches lie in the
\* order in which their messages arrived, and in every network.jsonl the
\* records lie in the order in which their frames were observed, however the
\* appends of the handlers settle.
C23_ArrivalOrderKept ==
  /\ \A o \in DOMAIN mutationsJsonl :
       \A i, j \in 1..Len(mutationsJsonl[o]) :
         i < j => mutationsJsonl[o][i].bid < mutationsJsonl[o][j].bid
  /\ \A o \in DOMAIN networkJsonl :
       \A i, j \in 1..Len(networkJsonl[o]) :
         i < j => networkJsonl[o][i].fid < networkJsonl[o][j].fid

\* the classified changes of the batches appended or being appended
StoredChanges ==
  UNION {{rec.changes[i] : i \in 1..Len(rec.changes)} : rec \in MutationRecords}

\* the raw change a stored change was made from
RawOf(ch) ==
  [mutationType |-> ch.mutationType, targetPath |-> ch.targetPath,
   addedNodes |-> ch.addedNodes, removedNodes |-> ch.removedNodes,
   attributeName |-> ch.attributeName]

InHeadPath(path) == \E i \in 1..Len(path) : path[i] = "head"

\* the five rules as the claim words them, the first that matches deciding
LevelByRules(raw) ==
  LET nodes == raw.addedNodes \o raw.removedNodes
      resourceOrComment(n) ==
        n \in {"SCRIPT", "LINK", "META", "STYLE", "NOSCRIPT", "#comment"}
      visibleOrAria(name) ==
        name \in {"class", "style", "hidden", "disabled", "value", "checked",
                  "selected", "open", "src", "href", "alt", "title"} \cup AriaNames
  IN IF \/ InHeadPath(raw.targetPath)
        \/ /\ raw.mutationType = "childList" /\ nodes # << >>
           /\ \A i \in 1..Len(nodes) : resourceOrComment(nodes[i])
       THEN 1
     ELSE IF /\ raw.mutationType = "attributes" /\ raw.attributeName # Undefined
             /\ visibleOrAria(raw.attributeName)
       THEN 3
     ELSE IF /\ raw.mutationType = "childList" /\ nodes # << >>
             /\ \A i \in 1..Len(nodes) : nodes[i] = "#text"
       THEN 2
     ELSE IF /\ raw.mutationType = "childList"
             /\ \E i \in 1..Len(nodes) :
                  ~resourceOrComment(nodes[i]) /\ nodes[i] # "#text"
       THEN 3
     ELSE 2

\* C25 (as claimed): every classified change carries the level the five rules
\* give its raw change.
C25_LevelByPriorityRules ==
  \A ch \in StoredChanges : ch.level = LevelByRules(RawOf(ch))

\* C26 (as claimed): a characterData change whose target path is not in the
\* head, the empty path of a target that is no element included, has level 2.
C26_CharacterDataIsMinor ==
  \A ch \in StoredChanges :
    (ch.mutationType = "characterData" /\ ~InHeadPath(ch.targetPath)) => ch.level = 2

C28_ResourceNodesAreNoise ==
  \A ch \in StoredChanges :
    LET nodes == ch.addedNodes \o ch.removedNodes IN
    (/\ ch.mutationType = "childList"
     /\ Len(nodes) >= 1
     /\ \A i \in 1..Len(nodes) :
          nodes[i] \in {"SCRIPT", "LINK", "META", "STYLE", "NOSCRIPT", "#comment"}) =>
      ch.level = 1

\* C28 witness: a change in the body that adds a comment and removes a NOSCRIPT
\* node is stored with level 1
C28_Witness ==
  \E o \in DOMAIN mutationsJsonl : \E k \in 1..Len(mutationsJsonl[o]) :
    \E i \in 1..Len(mutationsJsonl[o][k].changes) :
      LET ch == mutationsJsonl[o][k].changes[i] IN
      /\ ch.mutationType = "childList"
      /\ ch.targetPath = <<"html", "body", "div">>
      /\ ch.addedNodes = <<"#comment">> /\ ch.removedNodes = <<"NOSCRIPT">>
      /\ ch.level = 1

\* the batch the raw change list c is stored as: as many changes, in the order
\* of c, each the raw change with its level
StoredAsIs(rec, c) ==
  /\ Len(rec.changes) = Len(c)
  /\ \A i \in 1..Len(c) :
       /\ RawOf(rec.changes[i]) = c[i]
       /\ rec.changes[i].level = computeChangeLevel(c[i])

\* C29: handling a batch of two or three changes of any levels, in any order,
\* issues an append whose record has the changes of the list, all of them and
\* in their order, each with its level, the level-1 changes too; the append,
\* when it is acknowledged, has put that record into the file as it is; and
\* every change appended or being appended carries the level of its raw change.
C29_ClassificationNeverFilters ==
  /\ nInputs = 0 =>
       \A c \in Batches :
         ~ENABLED (/\ handleInjectedEvent(ActiveTab, MutationMessage(c))
                   /\ ~\E w \in MutationWrites(inflight') : StoredAsIs(w.rec, c))
  /\ \A w \in MutationWrites(inflight) :
       ~ENABLED (/\ AppendSettles(w, TRUE)
                 /\ mutationsJsonl'[w.opDir] # Append(mutationsJsonl[w.opDir], w.rec))
  /\ \A rec \in MutationRecords :
       /\ Len(rec.changes) >= 1
       /\ \A i \in 1..Len(rec.changes) :
            rec.changes[i].level = computeChangeLevel(RawOf(rec.changes[i]))

\* C29 witness: a batch of three changes, every one of level 1, is in the file
C29_Witness ==
  \E o \in DOMAIN mutationsJsonl : \E k \in 1..Len(mutationsJsonl[o]) :
    LET rec == mutationsJsonl[o][k] IN
    /\ Len(rec.changes) = 3
    /\ \A i \in 1..3 : rec.changes[i].level = 1 /\ RawOf(rec.changes[i]) = RawHeadChild

\* C30: the maxLevel of every batch appended or being appended is 1, 2 or 3, is
\* the level of one of its changes and is below the level of none.
C30_MaxLevelIsMaximum ==
  \A rec \in MutationRecords :
    /\ rec.maxLevel \in {1, 2, 3}
    /\ \E i \in 1..Len(rec.changes) : rec.changes[i].level = rec.maxLevel
    /\ \A i \in 1..Len(rec.changes) : rec.changes[i].level <= rec.maxLevel

\* C30 witness: a batch whose changes have the levels 2, 3 and 1, in that
\* order, is in the file with maxLevel 3
C30_Witness ==
  \E o \in DOMAIN mutationsJsonl : \E k \in 1..Len(mutationsJsonl[o]) :
    LET rec == mutationsJsonl[o][k] IN
    /\ Len(rec.changes) = 3
    /\ rec.changes[1].level = 2 /\ rec.changes[2].level = 3 /\ rec.changes[3].level = 1
    /\ rec.maxLevel = 3

\* C31 (as claimed): when the handler of a main-frame navigation that awaits the
\* write of its trigger record ends there (the write has failed, or it is done
\* and there is no snapshot to take), its operation is the tab's currentOpDir
\* and currentMutationDir.
C31_NavigationSurvivesWriteFailure ==
  [][\A h \in handlers :
       (/\ h.kind = "nav" /\ h.frameType = "main" /\ h.pc = "writeOpEvent"
        /\ ~\E h2 \in handlers' : h2.kind = "nav" /\ h2.ev = h.ev) =>
         /\ currentOpDir'[h.tab] = HandlerDir(h)
         /\ currentMutationDir'[h.tab] = HandlerDir(h)
    ]_vars

\* the suspended recordNavigation calls of frames that are not the main frame
IframeNavigations(hs) == {h \in hs : h.kind = "nav" /\ h.frameType = "iframe"}

\* C32: a navigation of a frame that is not the main frame takes the next
\* identifier and has its operation created and its trigger record written, but
\* no step of it changes currentOpDir or currentMutationDir, no snapshot is ever
\* requested for its operation, and no target ever names such an operation.
C32_IframeNavigationKeepsTargets ==
  [][  /\ \A h \in IframeNavigations(handlers' \ handlers) :
          h.pc = "createOpDir" =>
            /\ Len(issued') = Len(issued) + 1
            /\ h.ev = issued'[Len(issued')]
      /\ \A h \in IframeNavigations(handlers) :
          /\ (h.pc = "createOpDir" /\ HandlerDir(h) \in opDirs' \ opDirs) =>
                [call |-> "writeOpEvent", opDir |-> HandlerDir(h)] \in calls'
          /\ h \notin handlers' => UNCHANGED <<currentOpDir, currentMutationDir>>
      /\ \A c \in calls' : c.call = "captureSnapshot" => c.opDir.frameType # "iframe"
      /\ \A t \in Tabs : /\ currentOpDir'[t].frameType # "iframe"
                          /\ currentMutationDir'[t].frameType # "iframe"
    ]_vars

\* the operation of an iframe navigation is created and its trigger record is
\* written while the targets still name the operation of an earlier trigger
C32_Witness ==
  \E d \in opDirs :
    /\ d.frameType = "iframe"
    /\ [call |-> "writeOpEvent", opDir |-> d] \in calls
    /\ handlers = {}
    /\ currentOpDir[ActiveTab] \in opDirs \ {d}
    /\ currentMutationDir[ActiveTab] = currentOpDir[ActiveTab]
    /\ EvNumber(currentOpDir[ActiveTab].ev) < EvNumber(d.ev)

C35_NothingWrittenBeforeCreation ==
  /\ \A c \in calls : c.opDir \in opDirs
  /\ \A w \in inflight : w.opDir \in opDirs /\ AppendFileTarget(w) \in opDirs
  /\ DOMAIN mutationsJsonl \subseteq opDirs
  /\ DOMAIN networkJsonl \subseteq opDirs
  /\ \A t \in Tabs : /\ currentOpDir[t] \in opDirs \cup {NoDir}
                      /\ currentMutationDir[t] \in opDirs \cup {NoDir}

\* an operation whose directory was created has its post-action screenshot and
\* its trigger record requested, a mutation batch stored and a network record
\* stored
C35_Witness ==
  \E d \in opDirs :
    /\ [call |-> "takeScreenshot:after", opDir |-> d] \in calls
    /\ [call |-> "writeOpEvent", opDir |-> d] \in calls
    /\ mutationsJsonl[d] # << >>
    /\ networkJsonl[d] # << >>

\* the requestIds that have an entry in the pending map m
Pending(m) == {m[i].requestId : i \in 1..Len(m)}

\* C36 (as claimed): a request-sent frame removes a pending entry only when its
\* requestId is new and the map is at capacity; a request-sent frame whose
\* requestId is pending already leaves the number of entries as it is and
\* removes no entry.
C36_ReusedIdEvictsNothing ==
  [][\A e \in Frames :
       OnRequestWillBeSent(ActiveTab, e) =>
         LET before == pendingRequests[ActiveTab]
             after == pendingRequests'[ActiveTab]
         IN /\ Pending(before) \ Pending(after) # {} =>
                 /\ e.requestId \notin Pending(before)
                 /\ Len(before) >= bufferSize
            /\ e.requestId \in Pending(before) =>
                 /\ Len(after) >= Len(before)
                 /\ Pending(before) \subseteq Pending(after)
    ]_vars

\* the detach calls SessionManager.stop() awaits
StopAwaits(hs) == {h \in hs : h.kind = "stop" /\ h.action = "all"}

Created(hs) == {h \in hs : h.kind \in {"user", "nav"} /\ h.pc = "createOpDir"}

\* C37 (as claimed): once stop() has been called on a tracer, no step allocates
\* an identifier or calls createOpDir on its behalf, a start() still in
\* progress included.
C37_NoOperationAfterStop ==
  [][\A h \in Created(handlers' \ handlers) : ~stopped[h.tab]]_vars

\* no step is in progress for tracer t
Quiet(t) ==
  /\ \A h \in handlers : h.tab # t
  /\ \A w \in inflight : w.tab # t

\* C38 (as claimed): when stop() has been called on a tracer and no step of it
\* is in progress, its transport session is unset and no frame makes it append
\* a network record.
C38_DetachedAfterStop ==
  \A t \in Tabs :
    (tracerPage[t] # NoTarget /\ stopped[t] /\ Quiet(t)) =>
      /\ ~cdpSession[t]
      /\ ~ENABLED (/\ Connected /\ listening[t]
                   /\ Frame(t, Frames, nInputs + 1)
                   /\ inflight' # inflight)

\* C39 (as claimed): once SessionManager.stop() has returned, stop() has been
\* called on every tracer that was constructed and started, and no tracer is
\* constructed any more.
C39_AllTracersStopped ==
  [][shutdownPc' \in {"disconnect", "exit"} =>
       /\ \A t \in Tabs : tracerPage'[t] # NoTarget => stopped'[t]
       /\ shutdownPc \in {"disconnect", "exit"} => tracerPage' = tracerPage
    ]_vars

====
